---- MODULE Spec2Model ----
(***************************************************************************)
(* Model of the distributed evaluation harness of                          *)
(* "image classification/ImageNet/snn.py": main() launched once per rank,  *)
(* the sharded DALI reader it configures, validate()'s batch loop with its *)
(* per-batch all_reduce calls, AverageMeter, accuracy() and resume().      *)
(*                                                                         *)
(* Python floats are modelled as exact rationals [num, den] in lowest      *)
(* terms, so float rounding is outside the model.                          *)
(***************************************************************************)
EXTENDS Integers, Sequences, FiniteSets

VARIABLES
    cfg,        \* the launch: dataset size, command line, environment, checkpoint file
    args,       \* per process: the argparse namespace fields main() reads and writes
    best_prec1, \* per process: the module-level global best_prec1
    model,      \* per process: the classifier's parameters (a token)
    optimizer,  \* per process: the optimizer's state (a token)
    pc,         \* per process: position in main() / validate()
    i,          \* per process: index of the batch validate() is at (enumerate)
    batch,      \* per process: locals of the loop body: n, loss, prec1, prec5, k
    meters,     \* per process: batch_time, losses, top1, top5 (AverageMeter objects)
    contrib,    \* per process: the tensors it has handed to dist.all_reduce, in call order
    processed,  \* per process: the dataset samples it has run through the classifier
    hits,       \* per process (history): its own correct-at-1, correct-at-5 and sample totals
    result,     \* per process: what validate() returned
    meter,      \* AverageMeter harness: the object under test
    hist,       \* AverageMeter harness: the update(val, n) calls since the last reset
    stale,      \* AverageMeter harness: whether updates preceded the last reset
    acc         \* accuracy harness: the call's arguments, the topk result, the return value

evalVars == <<cfg, args, best_prec1, model, optimizer, pc, i, batch, meters, contrib,
              processed, hits, result>>
meterVars == <<meter, hist, stale>>
accVars == <<acc>>
vars == <<cfg, args, best_prec1, model, optimizer, pc, i, batch, meters, contrib,
          processed, hits, result, meter, hist, stale, acc>>

----------------------------------------------------------------------------
(* Bounds of the model.                                                    *)

\* largest dataset size T
MaxT == 7
\* largest --batch-size
MaxBatch == 2
\* largest WORLD_SIZE the launcher sets
MaxWorld == 2
\* largest --local_rank given by hand to a run started without the launcher
MaxLocalRank == 1
\* largest epoch stored in a checkpoint
MaxEpoch == 1
\* largest dataset size of the runs that resume
MaxResumeT == 3
\* AverageMeter harness: largest value, largest weight, most updates since a reset
MaxVal == 2
MaxWeight == 2
MaxUpdates == 3
\* accuracy harness: largest batch
MaxAccBatch == 2

----------------------------------------------------------------------------
(* Exact rationals standing for Python floats.                             *)

RECURSIVE GCD(_, _)
GCD(a, b) == IF b = 0 THEN a ELSE GCD(b, a % b)

Abs(x) == IF x < 0 THEN -x ELSE x

Rat(n, d) ==
    LET g == GCD(Abs(n), Abs(d))
        s == IF d < 0 THEN -1 ELSE 1
    IN  [num |-> (s * n) \div g, den |-> (s * d) \div g]

Zero == [num |-> 0, den |-> 1]
FromInt(n) == [num |-> n, den |-> 1]
RAdd(x, y) == Rat(x.num * y.den + y.num * x.den, x.den * y.den)
RMul(x, y) == Rat(x.num * y.num, x.den * y.den)
RDiv(x, y) == Rat(x.num * y.den, x.den * y.num)
RLe(x, y) == x.num * y.den <= y.num * x.den

RECURSIVE RSum(_)
RSum(s) == IF s = <<>> THEN Zero ELSE RAdd(Head(s), RSum(Tail(s)))

RECURSIVE ISum(_)
ISum(s) == IF s = <<>> THEN 0 ELSE Head(s) + ISum(Tail(s))

----------------------------------------------------------------------------
(* class AverageMeter                                                      *)

\* AverageMeter.reset
reset == [val |-> Zero, avg |-> Zero, sum |-> Zero, count |-> 0]

\* a slip that divides by the count before the new weight is added
update_stale_count(m, val, n) ==
    LET s == RAdd(m.sum, RMul(val, FromInt(n)))
    IN  [val |-> val, sum |-> s, count |-> m.count + n,
         avg |-> IF m.count = 0 THEN s ELSE RDiv(s, FromInt(m.count))]

\* AverageMeter.update(val, n)
update(m, val, n) ==
    LET s == RAdd(m.sum, RMul(val, FromInt(n)))
        c == m.count + n
    IN  [val |-> val, sum |-> s, count |-> c, avg |-> RDiv(s, FromInt(c))]

----------------------------------------------------------------------------
(* accuracy(output, target, topk=(1, 5))                                   *)

\* the topk tuple validate() passes
TopK == <<1, 5>>
\* maxk = max(topk)
maxk == CHOOSE m \in { TopK[x] : x \in DOMAIN TopK } :
            \A x \in DOMAIN TopK : TopK[x] <= m

\* the smallest label space that leaves a class outside the top maxk
NumClasses == maxk + 1
Classes == 0 .. (NumClasses - 1)

\* output.topk(k, 1, True, True) on one row: the k largest entries, sorted by
\* descending score. The order among equal scores is not defined by the
\* library, so every admissible index sequence is a possible outcome.
RECURSIVE TopkFrom(_, _, _)
TopkFrom(row, rem, k) ==
    IF k = 0 THEN {<<>>}
    ELSE UNION { { <<c>> \o t : t \in TopkFrom(row, rem \ {c}, k - 1) } :
                 c \in { c \in rem : \A d \in rem : row[d] <= row[c] } }

topk(row, k) == TopkFrom(row, DOMAIN row, k)

\* a slip that scans every row of `correct` instead of the first k
accuracy_all_rows(pred, target, ks) ==
    LET batch_size == Len(target)
        correct_k(k) == Cardinality({ js \in (1 .. maxk) \X (1 .. batch_size) :
                                        pred[js[2]][js[1]] = target[js[2]] })
    IN  [x \in 1 .. Len(ks) |->
            RMul(FromInt(correct_k(ks[x])), Rat(100, batch_size))]

\* accuracy, from the topk indices on: pred[s] holds sample s's maxk predicted
\* classes; correct[j][s] is pred[s][j] = target[s]; correct[:k] summed and
\* scaled by 100.0 / batch_size. batch_size = 0 raises ZeroDivisionError, so
\* callers apply this to non-empty batches only.
accuracy(pred, target, ks) ==
    LET batch_size == Len(target)
        correct_k(k) == Cardinality({ js \in (1 .. k) \X (1 .. batch_size) :
                                        pred[js[2]][js[1]] = target[js[2]] })
    IN  [x \in 1 .. Len(ks) |->
            RMul(FromInt(correct_k(ks[x])), Rat(100, batch_size))]

\* criterion(output, target): nn.CrossEntropyLoss is an external scalar-valued
\* mean over the batch; it is stood for by the mean 0/1 loss of the top prediction.
criterion(pred, target) ==
    Rat(Cardinality({ s \in 1 .. Len(target) : pred[s][1] # target[s] }), Len(target))

----------------------------------------------------------------------------
(* The sharded reader: fn.readers.file(shard_id, num_shards,               *)
(* random_shuffle=False, pad_last_batch=True) read through                  *)
(* DALIClassificationIterator(reader_name, LastBatchPolicy.PARTIAL).        *)
(* Shard s of W holds the samples floor(s*T/W) .. floor((s+1)*T/W)-1 in    *)
(* file order; every shard is padded to ceil(T/W) samples, so every rank   *)
(* iterates ceil(ceil(T/W)/B) batches; PARTIAL cuts the padding off the    *)
(* batch it returns, which may leave it short or empty.                    *)

ShardBegin(s, W, T) == (s * T) \div W
ShardEnd(s, W, T) == ((s + 1) * T) \div W
PaddedShardSize(W, T) == (T + W - 1) \div W
NumBatches(W, T, B) == (PaddedShardSize(W, T) + B - 1) \div B

Min(a, b) == IF a < b THEN a ELSE b

\* the non-padded samples of batch number b (from 0) of shard s
BatchSamples(s, W, T, B, b) ==
    LET lo == Min(ShardBegin(s, W, T) + b * B, ShardEnd(s, W, T))
        hi == Min(ShardBegin(s, W, T) + (b + 1) * B, ShardEnd(s, W, T))
    IN  [x \in 1 .. (hi - lo) |-> lo + x - 1]

----------------------------------------------------------------------------
(* The launch.  torch.distributed.launch sets WORLD_SIZE = W and starts W   *)
(* processes, process p with --local_rank p (one node).  A run started by   *)
(* hand has no WORLD_SIZE (or a useless one) and one process, whose         *)
(* --local_rank is whatever the command line says.                          *)

Procs == DOMAIN pc

Launches ==
    { [has_ws |-> TRUE, WORLD_SIZE |-> w, local_rank |-> [p \in 0 .. (w - 1) |-> p]] :
        w \in 1 .. MaxWorld }
    \cup
    { [has_ws |-> h, WORLD_SIZE |-> 0, local_rank |-> [p \in {0} |-> r]] :
        h \in BOOLEAN, r \in 0 .. MaxLocalRank }

\* the file at --resume, as torch.save wrote it
Checkpoints ==
    { [epoch |-> e, best_prec1 |-> FromInt(b), state_dict |-> "saved_model",
       optimizer |-> "saved_optimizer"] : e \in 1 .. MaxEpoch, b \in {75} }

NoCheckpoint ==
    [epoch |-> 0, best_prec1 |-> Zero, state_dict |-> "none", optimizer |-> "none"]

\* --resume not given; given with no file there; given with a checkpoint there
ResumeOptions ==
    { [resume |-> "", isfile |-> FALSE, checkpoint |-> NoCheckpoint],
      [resume |-> "ckpt.pth", isfile |-> FALSE, checkpoint |-> NoCheckpoint] }
    \cup
    { [resume |-> "ckpt.pth", isfile |-> TRUE, checkpoint |-> c] : c \in Checkpoints }

NoBatch == [n |-> 0, loss |-> Zero, prec1 |-> Zero, prec5 |-> Zero, k |-> 0]
NewMeters == [batch_time |-> reset, losses |-> reset, top1 |-> reset, top5 |-> reset]

\* the processes of a launch at the entry of main(), for a dataset size drawn
\* from Ts and a --resume situation drawn from Rs
InitEval(Ts, Rs) ==
    \E T \in Ts, B \in 1 .. MaxBatch, e \in BOOLEAN, l \in Launches, r \in Rs :
        /\ cfg = [T |-> T, batch_size |-> B, evaluate |-> e, has_ws |-> l.has_ws,
                  WORLD_SIZE |-> l.WORLD_SIZE, resume |-> r.resume,
                  isfile |-> r.isfile, checkpoint |-> r.checkpoint]
        /\ args = [p \in DOMAIN l.local_rank |->
                     [local_rank |-> l.local_rank[p], start_epoch |-> 0,
                      distributed |-> FALSE, gpu |-> 0, world_size |-> 0]]
        /\ best_prec1 = [p \in DOMAIN l.local_rank |-> Zero]
        /\ model = [p \in DOMAIN l.local_rank |-> "fresh_model"]
        /\ optimizer = [p \in DOMAIN l.local_rank |-> "fresh_optimizer"]
        /\ pc = [p \in DOMAIN l.local_rank |-> "main"]
        /\ i = [p \in DOMAIN l.local_rank |-> 0]
        /\ batch = [p \in DOMAIN l.local_rank |-> NoBatch]
        /\ meters = [p \in DOMAIN l.local_rank |-> NewMeters]
        /\ contrib = [p \in DOMAIN l.local_rank |-> <<>>]
        /\ processed = [p \in DOMAIN l.local_rank |-> <<>>]
        /\ hits = [p \in DOMAIN l.local_rank |-> [c1 |-> 0, c5 |-> 0, n |-> 0]]
        /\ result = [p \in DOMAIN l.local_rank |-> <<>>]

\* no evaluation process exists (the harness specifications)
NoEval ==
    /\ cfg = [T |-> 0, batch_size |-> 0, evaluate |-> FALSE, has_ws |-> FALSE,
              WORLD_SIZE |-> 0, resume |-> "", isfile |-> FALSE,
              checkpoint |-> NoCheckpoint]
    /\ args = <<>> /\ best_prec1 = <<>> /\ model = <<>> /\ optimizer = <<>>
    /\ pc = <<>> /\ i = <<>> /\ batch = <<>> /\ meters = <<>> /\ contrib = <<>>
    /\ processed = <<>> /\ hits = <<>> /\ result = <<>>

----------------------------------------------------------------------------
(* main()                                                                  *)

\* lines 162-164 and 187-196: args.distributed, args.gpu, args.world_size
Setup(p) ==
    /\ pc[p] = "main"
    /\ LET d == cfg.has_ws /\ cfg.WORLD_SIZE >= 1
       IN  args' = [args EXCEPT ![p].distributed = d,
                                ![p].gpu = IF d THEN args[p].local_rank ELSE 0,
                                ![p].world_size = IF d THEN cfg.WORLD_SIZE ELSE 1]
    /\ best_prec1' = [best_prec1 EXCEPT ![p] = Zero]
    /\ pc' = [pc EXCEPT ![p] = "resume"]
    /\ UNCHANGED <<cfg, model, optimizer, i, batch, meters, contrib, processed,
                   hits, result>>

\* a slip that clears the run state when no checkpoint is found
resume_clears(p) ==
    IF cfg.resume # "" /\ cfg.isfile
    THEN [start_epoch |-> cfg.checkpoint.epoch,
          best_prec1 |-> cfg.checkpoint.best_prec1,
          model |-> cfg.checkpoint.state_dict,
          optimizer |-> cfg.checkpoint.optimizer]
    ELSE [start_epoch |-> 0, best_prec1 |-> Zero, model |-> "none",
          optimizer |-> "none"]

\* if args.resume: resume() -- what it leaves in start_epoch, best_prec1, the
\* model and the optimizer
resume(p) ==
    IF cfg.resume # "" /\ cfg.isfile
    THEN [start_epoch |-> cfg.checkpoint.epoch,
          best_prec1 |-> cfg.checkpoint.best_prec1,
          model |-> cfg.checkpoint.state_dict,
          optimizer |-> cfg.checkpoint.optimizer]
    ELSE [start_epoch |-> args[p].start_epoch, best_prec1 |-> best_prec1[p],
          model |-> model[p], optimizer |-> optimizer[p]]

Resume(p) ==
    /\ pc[p] = "resume"
    /\ args' = [args EXCEPT ![p].start_epoch = resume(p).start_epoch]
    /\ best_prec1' = [best_prec1 EXCEPT ![p] = resume(p).best_prec1]
    /\ model' = [model EXCEPT ![p] = resume(p).model]
    /\ optimizer' = [optimizer EXCEPT ![p] = resume(p).optimizer]
    /\ pc' = [pc EXCEPT ![p] = "pipe"]
    /\ UNCHANGED <<cfg, i, batch, meters, contrib, processed, hits, result>>

\* a slip that gives every process the first shard
shard_id_zero(p) == 0

\* a slip that folds an out-of-range local_rank back into range
shard_id_wrapped(p) == args[p].local_rank % args[p].world_size

\* create_dali_pipeline(..., shard_id=args.local_rank, num_shards=args.world_size, ...)
shard_id(p) == args[p].local_rank
num_shards(p) == args[p].world_size

\* lines 298-310: the reader refuses a shard_id outside 0 .. num_shards-1 when
\* the pipeline is built, and main() dies of the exception
PipelineRejected(p) ==
    /\ pc[p] = "pipe"
    /\ ~ (shard_id(p) < num_shards(p))
    /\ pc' = [pc EXCEPT ![p] = "config_error"]
    /\ UNCHANGED <<cfg, args, best_prec1, model, optimizer, i, batch, meters,
                   contrib, processed, hits, result>>

PipelineBuilt(p) ==
    /\ pc[p] = "pipe"
    /\ shard_id(p) < num_shards(p)
    /\ pc' = [pc EXCEPT ![p] = "evaluate"]
    /\ UNCHANGED <<cfg, args, best_prec1, model, optimizer, i, batch, meters,
                   contrib, processed, hits, result>>

\* lines 315-316 and 321-329: validate() starts with four new meters
Evaluate(p) ==
    /\ pc[p] = "evaluate"
    /\ cfg.evaluate
    /\ meters' = [meters EXCEPT ![p] = NewMeters]
    /\ i' = [i EXCEPT ![p] = 0]
    /\ pc' = [pc EXCEPT ![p] = "loop"]
    /\ UNCHANGED <<cfg, args, best_prec1, model, optimizer, batch, contrib,
                   processed, hits, result>>

\* without --evaluate main() returns after building the loader
NoEvaluate(p) ==
    /\ pc[p] = "evaluate"
    /\ ~ cfg.evaluate
    /\ pc' = [pc EXCEPT ![p] = "exit"]
    /\ UNCHANGED <<cfg, args, best_prec1, model, optimizer, i, batch, meters,
                   contrib, processed, hits, result>>

----------------------------------------------------------------------------
(* validate()                                                              *)

\* the classifier is an external forward pass; its scores for a sample rank the
\* classes 0, 1, 2, ... in this order, and a sample's label decides whether it
\* is a hit at 1, a hit within the top five only, or a miss
EvalOutputRow == [c \in Classes |-> NumClasses - c]
EvalPred == CHOOSE t \in topk(EvalOutputRow, maxk) : TRUE
EvalTargets == {0, 1, NumClasses - 1}

\* len(val_loader): batches per epoch of the loader main() built
LoaderBatches(p) == NumBatches(num_shards(p), cfg.T, cfg.batch_size)
\* the non-padded samples of the batch the loader returns next
NextBatch(p) == BatchSamples(shard_id(p), num_shards(p), cfg.T, cfg.batch_size, i[p])

\* lines 331-342 on a non-empty batch: forward pass, loss, accuracy
Forward(p) ==
    /\ pc[p] = "loop"
    /\ i[p] < LoaderBatches(p)
    /\ Len(NextBatch(p)) > 0
    /\ \E target \in [1 .. Len(NextBatch(p)) -> EvalTargets] :
        LET pred == [s \in 1 .. Len(target) |-> EvalPred]
            a == accuracy(pred, target, TopK)
        IN  /\ batch' = [batch EXCEPT ![p] =
                            [n |-> Len(target), loss |-> criterion(pred, target),
                             prec1 |-> a[1], prec5 |-> a[2], k |-> 1]]
            /\ hits' = [hits EXCEPT ![p] =
                          [c1 |-> @.c1 + Cardinality({ s \in 1 .. Len(target) : target[s] = 0 }),
                           c5 |-> @.c5 + Cardinality({ s \in 1 .. Len(target) : target[s] < maxk }),
                           n |-> @.n + Len(target)]]
    /\ processed' = [processed EXCEPT ![p] = @ \o NextBatch(p)]
    /\ pc' = [pc EXCEPT ![p] = IF args[p].distributed THEN "all_reduce" ELSE "update"]
    /\ UNCHANGED <<cfg, args, best_prec1, model, optimizer, i, meters, contrib, result>>

\* lines 331-342 on a batch that is all padding: PARTIAL returns it empty and
\* accuracy() divides 100.0 by batch_size = 0, which raises ZeroDivisionError
ForwardEmpty(p) ==
    /\ pc[p] = "loop"
    /\ i[p] < LoaderBatches(p)
    /\ Len(NextBatch(p)) = 0
    /\ batch' = [batch EXCEPT ![p] = NoBatch]
    /\ pc' = [pc EXCEPT ![p] = "raised"]
    /\ UNCHANGED <<cfg, args, best_prec1, model, optimizer, i, meters, contrib,
                   processed, hits, result>>

\* the tensor the k-th reduce_tensor call of the loop body is given
Tensor(p) ==
    CASE batch[p].k = 1 -> batch[p].loss
      [] batch[p].k = 2 -> batch[p].prec1
      [] batch[p].k = 3 -> batch[p].prec5

\* reduce_tensor, first half: rt = tensor.clone(); dist.all_reduce(rt, SUM) is entered
AllReduceEnter(p) ==
    /\ pc[p] = "all_reduce"
    /\ contrib' = [contrib EXCEPT ![p] = Append(@, Tensor(p))]
    /\ pc' = [pc EXCEPT ![p] = "all_reduce_wait"]
    /\ UNCHANGED <<cfg, args, best_prec1, model, optimizer, i, batch, meters,
                   processed, hits, result>>

\* the collective completes for p once every process of the group has entered
\* its call of the same number
AllArrived(p) == \A q \in Procs : Len(contrib[q]) >= Len(contrib[p])

\* reduce_tensor's value: the sum over the group, divided by args.world_size
reduce_tensor(p) ==
    LET c == Len(contrib[p])
        RECURSIVE GroupSum(_)
        GroupSum(S) == IF S = {} THEN Zero
                       ELSE LET q == CHOOSE q \in S : TRUE
                            IN  RAdd(contrib[q][c], GroupSum(S \ {q}))
    IN  RDiv(GroupSum(Procs), FromInt(args[p].world_size))

\* reduce_tensor, second half: all_reduce returns, rt /= world_size, and the
\* loop body's local takes the result (lines 345-347)
AllReduceLeave(p) ==
    /\ pc[p] = "all_reduce_wait"
    /\ AllArrived(p)
    /\ batch' = [batch EXCEPT ![p] =
                    [n |-> @.n,
                     loss |-> IF @.k = 1 THEN reduce_tensor(p) ELSE @.loss,
                     prec1 |-> IF @.k = 2 THEN reduce_tensor(p) ELSE @.prec1,
                     prec5 |-> IF @.k = 3 THEN reduce_tensor(p) ELSE @.prec5,
                     k |-> @.k + 1]]
    /\ pc' = [pc EXCEPT ![p] = IF batch[p].k = 3 THEN "update" ELSE "all_reduce"]
    /\ UNCHANGED <<cfg, args, best_prec1, model, optimizer, i, meters, contrib,
                   processed, hits, result>>

\* a slip that weighs every batch by args.batch_size, padding included
weight_full_batch(p) == cfg.batch_size

\* input.size(0): the weight validate() gives a batch in the meters
weight(p) == batch[p].n

\* lines 351-357: the meters take the batch; one tick of wall time has passed
Update(p) ==
    /\ pc[p] = "update"
    /\ meters' = [meters EXCEPT ![p] =
                    [losses |-> update(@.losses, batch[p].loss, weight(p)),
                     top1 |-> update(@.top1, batch[p].prec1, weight(p)),
                     top5 |-> update(@.top5, batch[p].prec5, weight(p)),
                     batch_time |-> update(@.batch_time, FromInt(1), 1)]]
    /\ i' = [i EXCEPT ![p] = @ + 1]
    /\ pc' = [pc EXCEPT ![p] = "loop"]
    /\ UNCHANGED <<cfg, args, best_prec1, model, optimizer, batch, contrib,
                   processed, hits, result>>

\* lines 373-376: the loader is exhausted; return [top1.avg, top5.avg]
Summary(p) ==
    /\ pc[p] = "loop"
    /\ i[p] >= LoaderBatches(p)
    /\ result' = [result EXCEPT ![p] = <<meters[p].top1.avg, meters[p].top5.avg>>]
    /\ pc' = [pc EXCEPT ![p] = "done"]
    /\ UNCHANGED <<cfg, args, best_prec1, model, optimizer, i, batch, meters,
                   contrib, processed, hits>>

NextEval ==
    \E p \in Procs :
        \/ Setup(p)
        \/ Resume(p)
        \/ PipelineRejected(p)
        \/ PipelineBuilt(p)
        \/ Evaluate(p)
        \/ NoEvaluate(p)
        \/ Forward(p)
        \/ ForwardEmpty(p)
        \/ AllReduceEnter(p)
        \/ AllReduceLeave(p)
        \/ Update(p)
        \/ Summary(p)

----------------------------------------------------------------------------
(* AverageMeter on its own: construction, then any resets and updates.     *)
(* validate() weighs a batch by its (positive) size and batch_time by the  *)
(* default 1, so the weights are positive.                                 *)

InitMeter ==
    /\ NoEval
    /\ meter = reset
    /\ hist = <<>>
    /\ stale = FALSE
    /\ acc = [pc |-> "idle"]

MeterReset ==
    /\ meter' = reset
    /\ hist' = <<>>
    /\ stale' = (stale \/ hist # <<>>)
    /\ UNCHANGED <<evalVars, accVars>>

MeterUpdate ==
    /\ Len(hist) < MaxUpdates
    /\ \E v \in 0 .. MaxVal, n \in 1 .. MaxWeight :
        /\ meter' = update(meter, FromInt(v), n)
        /\ hist' = Append(hist, [val |-> FromInt(v), n |-> n])
    /\ UNCHANGED <<evalVars, accVars, stale>>

NextMeter == MeterReset \/ MeterUpdate

----------------------------------------------------------------------------
(* accuracy() on its own: a batch of score rows and labels, the topk call, *)
(* the return value.                                                       *)

\* score rows: strictly descending in the class index, or with one pair of
\* neighbouring classes tied (j = 0: no tie)
TieRow(j) == [c \in Classes |-> IF c = j - 1 THEN NumClasses - j ELSE NumClasses - c]
AccRows == { TieRow(j) : j \in 0 .. (NumClasses - 1) }

InitAccuracy ==
    /\ NoEval
    /\ meter = reset /\ hist = <<>> /\ stale = FALSE
    /\ \E n \in 0 .. MaxAccBatch :
        \E output \in [1 .. n -> AccRows], target \in [1 .. n -> Classes] :
            acc = [pc |-> "called", output |-> output, target |-> target]

\* line 403: _, pred = output.topk(maxk, 1, True, True)
AccTopk ==
    /\ acc.pc = "called"
    /\ \E pred \in [1 .. Len(acc.target) -> UNION { topk(r, maxk) : r \in AccRows }] :
        /\ \A s \in 1 .. Len(acc.target) : pred[s] \in topk(acc.output[s], maxk)
        /\ acc' = [pc |-> "topk", output |-> acc.output, target |-> acc.target,
                   pred |-> pred]
    /\ UNCHANGED <<evalVars, meterVars>>

\* lines 404-411 on a non-empty batch
AccReturn ==
    /\ acc.pc = "topk"
    /\ Len(acc.target) > 0
    /\ acc' = [pc |-> "returned", output |-> acc.output, target |-> acc.target,
               pred |-> acc.pred, res |-> accuracy(acc.pred, acc.target, TopK)]
    /\ UNCHANGED <<evalVars, meterVars>>

\* line 410 on an empty batch: 100.0 / batch_size raises ZeroDivisionError
AccRaise ==
    /\ acc.pc = "topk"
    /\ Len(acc.target) = 0
    /\ acc' = [pc |-> "raised", output |-> acc.output, target |-> acc.target,
               pred |-> acc.pred]
    /\ UNCHANGED <<evalVars, meterVars>>

NextAccuracy == AccTopk \/ AccReturn \/ AccRaise

----------------------------------------------------------------------------
(* Specifications                                                          *)

\* runs without --resume, over every dataset size
Init ==
    /\ InitEval(1 .. MaxT, { r \in ResumeOptions : r.resume = "" })
    /\ meter = reset /\ hist = <<>> /\ stale = FALSE
    /\ acc = [pc |-> "idle"]

\* runs with and without --resume, over the smaller dataset sizes
InitResume ==
    /\ InitEval(1 .. MaxResumeT, ResumeOptions)
    /\ meter = reset /\ hist = <<>> /\ stale = FALSE
    /\ acc = [pc |-> "idle"]

Next == NextEval /\ UNCHANGED <<meterVars, accVars>>

Spec == Init /\ [][Next]_vars
SpecResume == InitResume /\ [][Next]_vars
SpecMeter == InitMeter /\ [][NextMeter]_vars
SpecAccuracy == InitAccuracy /\ [][NextAccuracy]_vars

----------------------------------------------------------------------------
(* Vocabulary of the properties                                            *)

RECURSIVE SumSet(_, _)
SumSet(f, S) == IF S = {} THEN 0
                ELSE LET x == CHOOSE x \in S : TRUE IN f[x] + SumSet(f, S \ {x})

\* the sum of f over all processes
Total(f) == SumSet(f, DOMAIN f)

AllDone == Procs # {} /\ \A p \in Procs : pc[p] = "done"
Stopped(p) == pc[p] \in {"done", "raised", "config_error", "exit"}

\* how many times sample x has been run through the classifier, over all processes
TimesProcessed(x) ==
    Total([p \in Procs |-> Cardinality({ k \in 1 .. Len(processed[p]) : processed[p][k] = x })])

\* a process reads a short (padded) last batch
SomeShortBatch ==
    \E p \in Procs : hits[p].n < LoaderBatches(p) * cfg.batch_size

----------------------------------------------------------------------------
(* C1: in a distributed evaluation the average every rank reports for a    *)
(* metric is global_sum / global_count, the sums over all ranks of the      *)
(* per-rank (sum, count) pairs: for top-1 and top-5, 100 times the correct  *)
(* samples of all ranks over the samples of all ranks.                      *)
C1_FinalAverageIsGlobalRatio ==
    \A p \in Procs :
        (pc[p] = "done" /\ args[p].distributed) =>
            /\ result[p][1] = Rat(100 * Total([q \in Procs |-> hits[q].c1]),
                                  Total([q \in Procs |-> hits[q].n]))
            /\ result[p][2] = Rat(100 * Total([q \in Procs |-> hits[q].c5]),
                                  Total([q \in Procs |-> hits[q].n]))

C4_NoRankBlockedForever ==
    (cfg.has_ws /\ 1 <= cfg.WORLD_SIZE /\ cfg.WORLD_SIZE <= cfg.T) =>
        \A p, q \in Procs :
            ~ (/\ pc[p] = "all_reduce_wait"
               /\ Stopped(q)
               /\ Len(contrib[q]) < Len(contrib[p]))

(* C5: within one evaluation summary every rank reaches the collective      *)
(* reduce exactly once (not once per batch or per metric), after its last   *)
(* local update.                                                            *)
C5_OneReducePerSummary ==
    \A p \in Procs :
        (pc[p] = "done" /\ args[p].distributed) => Len(contrib[p]) = 1

(* C6: AverageMeter's running statistic: after construction or reset() and  *)
(* any updates, count is the sum of the weights, sum the sum of             *)
(* value*weight, val the last value, avg = sum/count; with no update since  *)
(* the reset all four are zero; a single update(v, 1) after a reset gives   *)
(* avg = v, whatever was recorded before the reset.                         *)
C6_MeterInvariant ==
    /\ meter.count = ISum([k \in 1 .. Len(hist) |-> hist[k].n])
    /\ meter.sum = RSum([k \in 1 .. Len(hist) |-> RMul(hist[k].val, FromInt(hist[k].n))])
    /\ hist = <<>> => meter = [val |-> Zero, avg |-> Zero, sum |-> Zero, count |-> 0]
    /\ hist # <<>> =>
        /\ meter.val = hist[Len(hist)].val
        /\ RMul(meter.avg, FromInt(meter.count)) = meter.sum
    /\ (Len(hist) = 1 /\ hist[1].n = 1) => meter.avg = hist[1].val

\* a reset that discarded earlier updates, then one update(v, 1) with v # 0
C6_Witness ==
    /\ stale
    /\ Len(hist) = 1
    /\ hist[1].n = 1
    /\ hist[1].val # Zero
    /\ meter.avg = hist[1].val

\* the samples of the call whose label is in the top k under every / under
\* some resolution of equal scores
SurelyInTop(k) ==
    { s \in 1 .. Len(acc.target) :
        Cardinality({ c \in Classes \ {acc.target[s]} :
                        acc.output[s][c] >= acc.output[s][acc.target[s]] }) < k }
PossiblyInTop(k) ==
    { s \in 1 .. Len(acc.target) :
        Cardinality({ c \in Classes :
                        acc.output[s][c] > acc.output[s][acc.target[s]] }) < k }

(* C7: accuracy(output, target, topk=(1, 5)) returns for each k 100 times   *)
(* the fraction of samples whose label is among the k highest-scoring       *)
(* classes (between the samples surely and the samples possibly in the top  *)
(* k where equal scores leave the top k open), top-5 >= top-1, and both     *)
(* values lie in [0, 100].                                                  *)
C7_TopkAccuracy ==
    acc.pc = "returned" =>
        LET n == Len(acc.target)
        IN  /\ \A x \in 1 .. Len(TopK) :
                /\ RLe(Rat(100 * Cardinality(SurelyInTop(TopK[x])), n), acc.res[x])
                /\ RLe(acc.res[x], Rat(100 * Cardinality(PossiblyInTop(TopK[x])), n))
                /\ RLe(Zero, acc.res[x])
                /\ RLe(acc.res[x], FromInt(100))
            /\ RLe(acc.res[1], acc.res[2])

\* a batch of two whose top-5 accuracy is strictly above its top-1 accuracy
C7_Witness ==
    /\ acc.pc = "returned"
    /\ Len(acc.target) = 2
    /\ acc.res[1] = FromInt(50)
    /\ acc.res[2] = FromInt(100)

C9_ResumeOutcome ==
    \A p \in Procs :
        (pc[p] \notin {"main", "resume"} /\ cfg.resume # "") =>
            IF cfg.isfile
            THEN /\ args[p].start_epoch = cfg.checkpoint.epoch
                 /\ best_prec1[p] = cfg.checkpoint.best_prec1
                 /\ model[p] = cfg.checkpoint.state_dict
                 /\ optimizer[p] = cfg.checkpoint.optimizer
            ELSE /\ args[p].start_epoch = 0
                 /\ best_prec1[p] = Zero
                 /\ model[p] = "fresh_model"
                 /\ optimizer[p] = "fresh_optimizer"
                 /\ pc[p] = "pipe" => ENABLED (PipelineBuilt(p) \/ PipelineRejected(p))

\* a run resumed from a missing path has gone on to finish its evaluation
C9_WitnessNotFound ==
    /\ cfg.resume # "" /\ ~ cfg.isfile
    /\ AllDone
    /\ \A p \in Procs : model[p] = "fresh_model"

(* C10: at the end of a distributed evaluation every rank returns the same  *)
(* [top1.avg, top5.avg] pair.                                               *)
C10_AllRanksReturnSameSummary ==
    \A p, q \in Procs :
        (pc[p] = "done" /\ pc[q] = "done" /\ args[p].distributed) =>
            result[p] = result[q]

====
